---- MODULE Spec2Model ----
(***************************************************************************)
(* A model of three pieces of the repository:                              *)
(*   - helpers/cache.py: the two-level (memory + disk) memoizing           *)
(*     decorator `Cached`, on top of joblib's MemorizedFunc;               *)
(*   - instrument_master/app/services/transformer_factory.py;              *)
(*   - dev_scripts/notebooks/publish_notebook.py (`_parse` and `_main`).   *)
(* Each piece has its own specification over the shared variables.         *)
(***************************************************************************)
EXTENDS Integers, Sequences, FiniteSets, TLC

(***************************************************************************)
(* Bounds of the model.                                                    *)
(***************************************************************************)
\* Arguments of the wrapped function are 0..MaxArg.
MaxArg == 1
\* Versions of the source of the wrapped function are 0..MaxSrc.
MaxSrc == 1
\* A client makes at most MaxFactoryCalls calls to the transformer factory.
MaxFactoryCalls == 3

Args == 0 .. MaxArg
Sources == 0 .. MaxSrc

VARIABLES
    \* helpers/cache.py
    use_caching,        \* the module global _USE_CACHING
    func_src,           \* the source version of the wrapped function self._func
    func_hashed,        \* self._func is in joblib.memory._FUNCTION_HASHES with its current hash
    use_mem_cache,      \* Cached._use_mem_cache
    use_disk_cache,     \* Cached._use_disk_cache
    mem_store,          \* the joblib store behind self._memory_cached_func
    disk_store,         \* the joblib store behind self._disk_cached_func
    last_used_mem_cache,  \* Cached._last_used_mem_cache
    last_used_disk_cache, \* Cached._last_used_disk_cache
    last,               \* observation of the latest operation on the Cached object
    done,               \* observation: per argument, the value a completed cached call of this object returned
    \* instrument_master/app/services/transformer_factory.py
    tf_calls,           \* the calls made to get_s3_to_sql_transformer, with their outcomes
    \* dev_scripts/notebooks/publish_notebook.py
    pn_cli,             \* the command line and the environment of the run
    pn_pc,              \* the position of _main
    pn_action,          \* args.action after parse_args
    pn_html,            \* the local html_file_name of _main: <<>> while unbound
    pn_log,             \* the external effects of the run, in order
    pn_result,          \* how the run ended
    \* vendors2/kibot/data/transform/convert_csv_to_pq.py
    cv_cli,             \* the command line of the run and the interpreter's -O switch
    cv_s3,              \* the S3 directories: for each directory the names of its files
    cv_pc,              \* the position of _main
    cv_todo,            \* the datasets the loop of _main has not finished yet
    cv_symbols,         \* s3_symbols of the dataset being processed
    cv_pending,         \* the symbols the running _process_over_dataset has not processed yet
    cv_log,             \* the external effects of the run, in order
    cv_result,          \* how the run ended
    \* im/ccxt/data/extract/download_historical.py
    dh_cli,             \* the command line of the run
    dh_market,          \* for each exchange, its currency_pairs
    dh_pc,              \* the position of _main
    dh_exchanges,       \* the exchanges the outer loop has not finished yet
    dh_pairs,           \* the present pairs the inner loop has not finished yet
    dh_log,             \* the downloads and the saved files of the run, in order
    dh_result,          \* how the run ended
    \* IncrementalDagRunner (dataflow/core/test/test_runners.py)
    id_cfg,             \* start, end, freq and fit_state of the runner
    id_step,            \* the place in the grid of the next prediction
    id_bundles,         \* the result bundles predict() has yielded
    id_pc,              \* "predict" while the generator runs, then "done"
    \* RealTimeDagRunner (dataflow/core/test/test_runners.py)
    rt_cfg,             \* replayed start time, sleep interval and time out of the loop
    rt_clock,           \* the simulated wall clock
    rt_num_it,          \* num_it of the loop
    rt_events,          \* dag_runner.events
    rt_bundles,         \* the result bundles of predict()
    rt_pc,              \* the position of the loop
    \* core/dataflow/nodes/local_level_model.py
    ll_nan_mode,        \* LocalLevelModel._nan_mode
    ll_tau,             \* LocalLevelModel._tau: <<>> while None
    ll_info,            \* the info of the node, per method: <<>> while not set
    ll_last,            \* observation of the latest call on the node
    \* vendors2/kibot/metadata/extract/download_adjustments.py
    da_env,             \* the environment of the run: the answers of the API, of the disk and of S3
    da_pc,              \* the position of _main
    da_log,             \* the external effects of the run, in order
    da_result,          \* how the run ended
    da_return           \* the return code of _main: <<>> while it has not returned

cacheVars == <<use_caching, func_src, func_hashed, use_mem_cache, use_disk_cache,
               mem_store, disk_store, last_used_mem_cache, last_used_disk_cache,
               last, done>>

tfVars == <<tf_calls>>

pnVars == <<pn_cli, pn_pc, pn_action, pn_html, pn_log, pn_result>>

cvVars == <<cv_cli, cv_s3, cv_pc, cv_todo, cv_symbols, cv_pending, cv_log, cv_result>>

dhVars == <<dh_cli, dh_market, dh_pc, dh_exchanges, dh_pairs, dh_log, dh_result>>

idVars == <<id_cfg, id_step, id_bundles, id_pc>>

rtVars == <<rt_cfg, rt_clock, rt_num_it, rt_events, rt_bundles, rt_pc>>

llVars == <<ll_nan_mode, ll_tau, ll_info, ll_last>>

daVars == <<da_env, da_pc, da_log, da_result, da_return>>

\* The variables of the scripts and nodes modelled after the first three pieces.
moreVars == <<cvVars, dhVars, idVars, rtVars, llVars, daVars>>

vars == <<cacheVars, tfVars, pnVars, moreVars>>

\* For each of these pieces, the variables of all the other pieces.
notCvVars == <<cacheVars, tfVars, pnVars, dhVars, idVars, rtVars, llVars, daVars>>

notDhVars == <<cacheVars, tfVars, pnVars, cvVars, idVars, rtVars, llVars, daVars>>

notIdVars == <<cacheVars, tfVars, pnVars, cvVars, dhVars, rtVars, llVars, daVars>>

notLlVars == <<cacheVars, tfVars, pnVars, cvVars, dhVars, idVars, rtVars, daVars>>

notDaVars == <<cacheVars, tfVars, pnVars, cvVars, dhVars, idVars, rtVars, llVars>>

notRtVars == <<cacheVars, tfVars, pnVars, cvVars, dhVars, idVars, llVars, daVars>>

(***************************************************************************)
(* helpers/cache.py                                                        *)
(***************************************************************************)

\* The wrapped function: deterministic, its value depends on its source
\* version and its argument, and differs between any two (source, argument).
Func(s, a) == s * (MaxArg + 1) + a

\* A joblib store for the function: the stored func_code.py (<<>> when the
\* file does not exist, <<s>> when it holds source s) and one optional
\* output per arguments digest (<<>>: no item, <<v>>: the pickled value v).
EmptyStore == [code |-> <<>>, items |-> [a \in Args |-> <<>>]]

\* store_backend.contains_item([func_id, args_id])
ContainsItem(st, a) == st.items[a] # <<>>

\* MemorizedFunc._write_func_code: store the current source in the store
\* (it also records the function in _FUNCTION_HASHES: see the callers).
WriteFuncCode(st) == [st EXCEPT !.code = <<func_src>>]

\* MemorizedFunc.clear: wipe the function's items, write the current source.
JoblibClear(st) == WriteFuncCode([st EXCEPT !.items = [a \in Args |-> <<>>]])

\* MemorizedFunc._check_previous_func_code: is the stored code that of the
\* current function? Returns the answer, the store and the hashed flag.
CheckPreviousFuncCode(st, hashed) ==
    IF hashed
    THEN [ok |-> TRUE, st |-> st, hashed |-> hashed]
    ELSE IF st.code = <<>>
    THEN [ok |-> FALSE, st |-> WriteFuncCode(st), hashed |-> TRUE]
    ELSE IF st.code[1] = func_src
    THEN [ok |-> TRUE, st |-> st, hashed |-> hashed]
    ELSE [ok |-> FALSE, st |-> JoblibClear(st), hashed |-> TRUE]

\* MemorizedFunc.__call__ (_cached_call): load the item when the code is
\* unchanged and the item exists, else execute the function and dump it.
JoblibCall(st, hashed, a) ==
    LET chk == CheckPreviousFuncCode(st, hashed)
    IN  IF chk.ok /\ ContainsItem(chk.st, a)
        THEN [st |-> chk.st, hashed |-> chk.hashed, obj |-> chk.st.items[a][1],
              nexec |-> 0, read |-> TRUE]
        ELSE [st |-> [chk.st EXCEPT !.items[a] = <<Func(func_src, a)>>],
              hashed |-> chk.hashed, obj |-> Func(func_src, a),
              nexec |-> 1, read |-> FALSE]

\* Mutant of HasCachedVersion: the `return True` statements are lost, every
\* lookup falls through to `return False`.
HasCachedVersionAlwaysFalse(st, hashed, a) == "no"

\* Cached._has_cached_version: "yes", "no", or "raise" when the store has the
\* item but no func_code.py to compare with (get_cached_func_code raises).
HasCachedVersion(st, hashed, a) ==
    IF ~ContainsItem(st, a) THEN "no"
    ELSE IF hashed THEN "yes"
    ELSE IF st.code = <<>> THEN "raise"
    ELSE IF st.code[1] = func_src THEN "yes"
    ELSE "no"

\* Mutant of StoreCachedVersion: the function code is written but the
\* returned value is not dumped.
StoreCachedVersionCodeOnly(st, a, obj) == WriteFuncCode(st)

\* Cached._store_cached_version: write the function code, dump the value.
StoreCachedVersion(st, a, obj) ==
    [WriteFuncCode(st) EXCEPT !.items[a] = <<obj>>]

\* Cached._reset_cache_tracing, as the state a call starts from.
ResetCacheTracing ==
    [mem |-> mem_store, disk |-> disk_store, hashed |-> func_hashed,
     lum |-> use_mem_cache, lud |-> use_disk_cache,
     ret |-> <<>>, nexec |-> 0, from |-> "none", raised |-> FALSE]

Raise(c) == [c EXCEPT !.raised = TRUE, !.ret = <<>>]

\* Mutant of ExecuteFuncFromDiskCache: the disk tracing flag is cleared on a
\* hit as well as on a miss.
ExecuteFuncFromDiskCacheUntraced(c, a) ==
    LET has == HasCachedVersion(c.disk, c.hashed, a)
        c1 == [c EXCEPT !.lud = FALSE]
        r == JoblibCall(c1.disk, c1.hashed, a)
    IN  IF has = "raise" THEN Raise(c)
        ELSE [c1 EXCEPT !.disk = r.st, !.hashed = r.hashed, !.ret = <<r.obj>>,
                        !.nexec = @ + r.nexec,
                        !.from = IF r.read THEN "disk" ELSE @]

\* Cached._execute_func_from_disk_cache
ExecuteFuncFromDiskCache(c, a) ==
    LET has == HasCachedVersion(c.disk, c.hashed, a)
        c1 == IF has = "no" THEN [c EXCEPT !.lud = FALSE] ELSE c
        r == JoblibCall(c1.disk, c1.hashed, a)
    IN  IF has = "raise" THEN Raise(c)
        ELSE [c1 EXCEPT !.disk = r.st, !.hashed = r.hashed, !.ret = <<r.obj>>,
                        !.nexec = @ + r.nexec,
                        !.from = IF r.read THEN "disk" ELSE @]

\* Cached._execute_func_from_mem_cache
ExecuteFuncFromMemCache(c, a) ==
    LET has == HasCachedVersion(c.mem, c.hashed, a)
        hit == JoblibCall(c.mem, c.hashed, a)
        c1 == [c EXCEPT !.lum = FALSE]
        viaDisk == ExecuteFuncFromDiskCache(c1, a)
        r == JoblibCall(c1.mem, c1.hashed, a)
        viaMem == [c1 EXCEPT !.mem = r.st, !.hashed = r.hashed, !.ret = <<r.obj>>,
                             !.nexec = @ + r.nexec,
                             !.from = IF r.read THEN "mem" ELSE @]
        c2 == IF use_disk_cache THEN viaDisk ELSE viaMem
    IN  IF has = "raise" THEN Raise(c)
        ELSE IF has = "yes"
        THEN [c EXCEPT !.mem = hit.st, !.hashed = hit.hashed, !.ret = <<hit.obj>>,
                       !.nexec = @ + hit.nexec,
                       !.from = IF hit.read THEN "mem" ELSE @]
        ELSE IF c2.raised THEN c2
        ELSE [c2 EXCEPT !.mem = StoreCachedVersion(c2.mem, a, c2.ret[1]),
                        !.hashed = TRUE]

\* Calling the wrapped function itself: self._func(*args, **kwargs).
ExecuteIntrinsic(c, a) ==
    [c EXCEPT !.ret = <<Func(func_src, a)>>, !.nexec = @ + 1]

\* Cached._execute_func
ExecuteFunc(c, a) ==
    IF use_mem_cache THEN ExecuteFuncFromMemCache(c, a)
    ELSE IF use_disk_cache THEN ExecuteFuncFromDiskCache(c, a)
    ELSE ExecuteIntrinsic(c, a)

\* Mutant of CachedCall: is_caching_enabled() is not consulted.
CachedCallIgnoringSwitch(a) == ExecuteFunc(ResetCacheTracing, a)

\* Cached.__call__: the state and the observation after a call with a.
CachedCall(a) ==
    IF ~use_caching
    THEN ExecuteIntrinsic([ResetCacheTracing EXCEPT !.lum = FALSE, !.lud = FALSE], a)
    ELSE ExecuteFunc(ResetCacheTracing, a)

\* Mutant of LastCacheAccessed: the disk flag is tested before the memory flag.
LastCacheAccessedDiskFirst(used_mem, used_disk) ==
    IF used_disk THEN "disk"
    ELSE IF used_mem THEN "mem"
    ELSE "no_cache"

\* Cached.get_last_cache_accessed, on the two tracing flags.
LastCacheAccessed(used_mem, used_disk) ==
    IF used_mem THEN "mem"
    ELSE IF used_disk THEN "disk"
    ELSE "no_cache"

\* cached_func.get_last_cache_accessed()
GetLastCacheAccessed == LastCacheAccessed(last_used_mem_cache, last_used_disk_cache)

\* What get_last_cache_accessed() returns right after the call whose outcome is c.
Reports(c) == LastCacheAccessed(c.lum, c.lud)

\* The observation of an operation that is not a call.
Op(name) == [op |-> name, arg |-> 0, ret |-> <<>>, nexec |-> 0, from |-> "none",
             raised |-> FALSE]

NoneDone == [a \in Args |-> <<>>]

\* Cached.__init__ on a fresh pair of stores, with caching enabled (the
\* module's initial _USE_CACHING).
CacheInit ==
    /\ use_caching = TRUE
    /\ func_src = 0
    /\ func_hashed = FALSE
    /\ use_mem_cache \in BOOLEAN
    /\ use_disk_cache \in BOOLEAN
    /\ mem_store = EmptyStore
    /\ disk_store = EmptyStore
    /\ last_used_mem_cache = use_mem_cache
    /\ last_used_disk_cache = use_disk_cache
    /\ last = Op("construct")
    /\ done = NoneDone

\* cached_func(a)
Call(a) ==
    LET c == CachedCall(a)
    IN  /\ mem_store' = c.mem
        /\ disk_store' = c.disk
        /\ func_hashed' = c.hashed
        /\ last_used_mem_cache' = c.lum
        /\ last_used_disk_cache' = c.lud
        /\ last' = [op |-> "call", arg |-> a, ret |-> c.ret, nexec |-> c.nexec,
                    from |-> c.from, raised |-> c.raised]
        /\ done' = IF use_caching /\ use_mem_cache /\ ~c.raised /\ done[a] = <<>>
                   THEN [done EXCEPT ![a] = c.ret]
                   ELSE done
        /\ UNCHANGED <<use_caching, func_src, use_mem_cache, use_disk_cache>>
        /\ UNCHANGED <<tfVars, pnVars, moreVars>>

\* Mutant of ClearCacheEffect: the cache type is not looked at, both caches
\* are cleared.
ClearCacheEffectEverything(cache_type) ==
    [mem |-> JoblibClear(mem_store), disk |-> JoblibClear(disk_store),
     hashed |-> TRUE]

\* What clear_cache(cache_type) makes of the two stores and of the hashed
\* flag; "all" stands for cache_type None.
ClearCacheEffect(cache_type) ==
    [mem |-> IF cache_type \in {"all", "mem"}
             THEN JoblibClear(mem_store) ELSE mem_store,
     disk |-> IF cache_type \in {"all", "disk"}
              THEN JoblibClear(disk_store) ELSE disk_store,
     hashed |-> TRUE]

\* cached_func.clear_cache(cache_type)
ClearCache(cache_type) ==
    /\ mem_store' = ClearCacheEffect(cache_type).mem
    /\ disk_store' = ClearCacheEffect(cache_type).disk
    /\ func_hashed' = ClearCacheEffect(cache_type).hashed
    /\ last' = Op("clear_cache")
    /\ done' = NoneDone
    /\ UNCHANGED <<use_caching, func_src, use_mem_cache, use_disk_cache,
                   last_used_mem_cache, last_used_disk_cache>>
    /\ UNCHANGED <<tfVars, pnVars, moreVars>>

\* set_caching(val)
SetCaching(val) ==
    /\ use_caching' = val
    /\ last' = Op("set_caching")
    /\ UNCHANGED <<func_src, func_hashed, use_mem_cache, use_disk_cache,
                   mem_store, disk_store, last_used_mem_cache,
                   last_used_disk_cache, done>>
    /\ UNCHANGED <<tfVars, pnVars, moreVars>>

\* The function is defined again with source s (the same or a changed one)
\* and wrapped again, Cached(func, use_mem_cache, use_disk_cache): a new
\* function object, unknown to _FUNCTION_HASHES, on the same stores.
Redefine(s) ==
    /\ func_src' = s
    /\ func_hashed' = FALSE
    /\ last_used_mem_cache' = use_mem_cache
    /\ last_used_disk_cache' = use_disk_cache
    /\ last' = Op("construct")
    /\ done' = NoneDone
    /\ UNCHANGED <<use_caching, use_mem_cache, use_disk_cache, mem_store,
                   disk_store>>
    /\ UNCHANGED <<tfVars, pnVars, moreVars>>

CacheNext ==
    \/ \E a \in Args : Call(a)
    \/ \E t \in {"all", "mem", "disk"} : ClearCache(t)
    \/ \E v \in BOOLEAN : SetCaching(v)
    \/ \E s \in Sources : Redefine(s)

(***************************************************************************)
(* Properties of helpers/cache.py, under Spec.                             *)
(***************************************************************************)

\* The latest operation is a call that returned.
Completed == last.op = "call" /\ ~last.raised

BothCaches == use_caching /\ use_mem_cache /\ use_disk_cache

\* C1: with caching enabled and both caches in use, in every reachable state
\* a call with arguments a that are in neither the memory nor the disk store
\* executes the wrapped function exactly once, leaves the returned value in
\* the disk store and in the memory store, and reports "no_cache".
C1_MissExecutesOnceAndStoresInBoth ==
    \A a \in Args :
        (BothCaches /\ ~ContainsItem(mem_store, a) /\ ~ContainsItem(disk_store, a))
        => LET c == CachedCall(a)
           IN  /\ ~c.raised
               /\ c.nexec = 1
               /\ c.ret = <<Func(func_src, a)>>
               /\ c.disk.items[a] = c.ret
               /\ c.mem.items[a] = c.ret
               /\ Reports(c) = "no_cache"

\* C1 witness: such a call has just been made.
C1_Witness ==
    /\ Completed /\ BothCaches
    /\ last.nexec = 1 /\ last.from = "none"
    /\ mem_store.items[last.arg] = last.ret
    /\ disk_store.items[last.arg] = last.ret
    /\ GetLastCacheAccessed = "no_cache"
    /\ done[last.arg] = last.ret

\* C2: with caching enabled and use_mem_cache, once a call of the Cached
\* object with arguments a has completed (done[a] is its value), with no
\* clear_cache and no redefinition of the function since, a call with a does
\* not execute the wrapped function, returns that value and reports "mem".
C2_RepeatedCallServedFromMem ==
    \A a \in Args :
        (use_caching /\ use_mem_cache /\ done[a] # <<>>)
        => LET c == CachedCall(a)
           IN  /\ ~c.raised
               /\ c.nexec = 0
               /\ c.ret = done[a]
               /\ Reports(c) = "mem"

\* C2 witness: a later call with the same arguments was served from memory.
C2_Witness ==
    /\ Completed /\ use_caching /\ use_mem_cache
    /\ last.nexec = 0 /\ last.from = "mem"
    /\ last.ret = done[last.arg]
    /\ GetLastCacheAccessed = "mem"

\* The disk store holds an item for a and the source recorded with it is the
\* current one.
ValidOnDisk(a) == ContainsItem(disk_store, a) /\ disk_store.code = <<func_src>>

\* C3: with both caches in use, when the memory store has no item for a and
\* the disk store has a valid one, a call with a returns the disk value
\* without executing the function, reports "disk" and writes the value to the
\* memory store; and right after a call served from disk, a call with the same
\* arguments is served from memory and reports "mem".
C3_DiskHitFillsMem ==
    /\ \A a \in Args :
          (BothCaches /\ ~ContainsItem(mem_store, a) /\ ValidOnDisk(a))
          => LET c == CachedCall(a)
             IN  /\ ~c.raised
                 /\ c.nexec = 0
                 /\ c.ret = disk_store.items[a]
                 /\ Reports(c) = "disk"
                 /\ c.mem.items[a] = c.ret
                 /\ c.disk = disk_store
    /\ (Completed /\ BothCaches /\ last.from = "disk")
          => LET c == CachedCall(last.arg)
             IN  /\ ~c.raised
                 /\ c.nexec = 0
                 /\ c.ret = last.ret
                 /\ Reports(c) = "mem"

\* C3 witness: a call was served from disk and filled the memory store.
C3_Witness ==
    /\ Completed /\ BothCaches
    /\ last.from = "disk" /\ last.nexec = 0
    /\ GetLastCacheAccessed = "disk"
    /\ mem_store.items[last.arg] = last.ret
    /\ disk_store.items[last.arg] = last.ret

\* A cache in use holds for a a value computed by another source than the
\* current one: the source has changed since the value was cached.
CachedBeforeSourceChange(a) ==
    \/ /\ use_mem_cache
       /\ ContainsItem(mem_store, a)
       /\ mem_store.items[a] # <<Func(func_src, a)>>
    \/ /\ use_disk_cache
       /\ ContainsItem(disk_store, a)
       /\ disk_store.items[a] # <<Func(func_src, a)>>

\* C4: when the source of the function has changed after a value for a was
\* cached, the next call with a (caching enabled) is a hit in neither cache:
\* it executes the function with the new source, returns the new value and
\* reports "no_cache".
C4_SourceChangeInvalidates ==
    [][\A a \in Args :
         (use_caching /\ CachedBeforeSourceChange(a) /\ Call(a))
         => /\ last'.nexec = 1
            /\ last'.ret = <<Func(func_src, a)>>
            /\ GetLastCacheAccessed' = "no_cache"]_vars

\* C5: every call that returns, returns what the current source of the
\* function computes for its arguments.
C5_CallReturnsCurrentSourceValue ==
    Completed => last.ret = <<Func(func_src, last.arg)>>

\* C6: after every completed call, get_last_cache_accessed() is "mem" exactly
\* when the value was read from the memory store, "disk" exactly when it was
\* read from the disk store, and "no_cache" exactly when the wrapped function
\* was executed.
C6_LastCacheAccessedNamesBackend ==
    Completed
    => /\ (GetLastCacheAccessed = "mem") <=> (last.from = "mem")
       /\ (GetLastCacheAccessed = "disk") <=> (last.from = "disk")
       /\ (GetLastCacheAccessed = "no_cache") <=> (last.nexec >= 1)
       /\ (last.from = "none") <=> (last.nexec = 1)

\* C6 witness: a call served from the memory store while the disk cache is
\* in use too.
C6_Witness ==
    /\ Completed /\ BothCaches
    /\ last.from = "mem"
    /\ GetLastCacheAccessed = "mem"

\* C7: while caching is disabled, a call executes the wrapped function once,
\* reports "no_cache", and neither reads nor changes the memory and the disk
\* store.
C7_DisabledCachingBypassesCaches ==
    ~use_caching
    => \A a \in Args :
          LET c == CachedCall(a)
          IN  /\ ~c.raised
              /\ c.nexec = 1
              /\ c.ret = <<Func(func_src, a)>>
              /\ c.from = "none"
              /\ Reports(c) = "no_cache"
              /\ c.mem = mem_store
              /\ c.disk = disk_store

\* C7 witness: a call made with caching disabled executed the function
\* although both stores hold an item for its arguments.
C7_Witness ==
    /\ Completed /\ ~use_caching
    /\ use_mem_cache /\ use_disk_cache
    /\ last.nexec = 1
    /\ GetLastCacheAccessed = "no_cache"
    /\ ContainsItem(mem_store, last.arg)
    /\ ContainsItem(disk_store, last.arg)

\* C17: a Cached object that was just constructed and has not been called
\* reports "no_cache" as the last cache accessed.
C17_FreshObjectReportsNoCache ==
    last.op = "construct" => GetLastCacheAccessed = "no_cache"

\* The items of a store: none.
NoItems(st) == \A a \in Args : ~ContainsItem(st, a)

\* The latest operation was a clear_cache that left the disk cache without
\* items while the memory cache holds one for a: it was clear_cache("disk")
\* (clear_cache("mem") and clear_cache() leave no item in the memory cache).
DiskJustCleared(a) ==
    /\ last.op = "clear_cache"
    /\ NoItems(disk_store)
    /\ ContainsItem(mem_store, a)

\* C18: from every reachable state, clear_cache("mem") and
\* clear_cache("disk") remove the entries of that backend and leave the other
\* backend as it is; and right after a clear_cache("disk"), with caching
\* enabled, a call with arguments cached before (the memory cache holds
\* them) is served from memory: the function is not executed, the value is
\* the cached one, "mem" is reported and the disk cache still has no item.
C18_ClearCacheClearsOneBackend ==
    /\ LET m == ClearCacheEffect("mem")
           d == ClearCacheEffect("disk")
       IN  /\ NoItems(m.mem)
           /\ m.disk = disk_store
           /\ NoItems(d.disk)
           /\ d.mem = mem_store
    /\ \A a \in Args :
          (DiskJustCleared(a) /\ use_caching /\ use_mem_cache)
          => LET c == CachedCall(a)
             IN  /\ ~c.raised
                 /\ c.nexec = 0
                 /\ c.from = "mem"
                 /\ c.ret = mem_store.items[a]
                 /\ Reports(c) = "mem"
                 /\ NoItems(c.disk)

\* C18 witness: the state after a clear_cache("disk") that emptied the disk
\* cache while the memory cache holds an item.
C18_Witness ==
    /\ last.op = "clear_cache"
    /\ BothCaches
    /\ NoItems(disk_store)
    /\ disk_store.code = <<func_src>>
    /\ \E a \in Args : ContainsItem(mem_store, a)

(***************************************************************************)
(* instrument_master/app/services/transformer_factory.py                   *)
(***************************************************************************)

\* Provider strings a caller may pass.
Providers == {"kibot", "Kibot", "KIBOT", "kibot ", "ib", ""}

\* Mutant of GetS3ToSqlTransformer: the provider is compared without regard
\* to case.
GetS3ToSqlTransformerAnyCase(provider) ==
    IF provider \in {"kibot", "Kibot", "KIBOT"}
    THEN [provider |-> provider, returned |-> <<"kibot.S3ToSqlTransformer">>,
          raised |-> <<>>]
    ELSE [provider |-> provider, returned |-> <<>>, raised |-> <<"ValueError">>]

\* TransformerFactory.get_s3_to_sql_transformer: what it returns (<<>> when
\* it returns nothing) and what it raises (<<>> when it raises nothing).
GetS3ToSqlTransformer(provider) ==
    IF provider = "kibot"
    THEN [provider |-> provider, returned |-> <<"kibot.S3ToSqlTransformer">>,
          raised |-> <<>>]
    ELSE [provider |-> provider, returned |-> <<>>, raised |-> <<"ValueError">>]

TfInit == tf_calls = <<>>

\* A caller calls TransformerFactory.get_s3_to_sql_transformer(provider).
TfCall(provider) ==
    /\ Len(tf_calls) < MaxFactoryCalls
    /\ tf_calls' = Append(tf_calls, GetS3ToSqlTransformer(provider))
    /\ UNCHANGED <<cacheVars, pnVars, moreVars>>

TfNext == \E provider \in Providers : TfCall(provider)

\* C8: get_s3_to_sql_transformer returns the kibot S3-to-SQL transformer when
\* the provider is "kibot"; for every other provider string it raises
\* ValueError and returns nothing.
C8_OnlyKibotGetsTransformer ==
    \A i \in 1 .. Len(tf_calls) :
        LET call == tf_calls[i]
        IN  IF call.provider = "kibot"
            THEN call.returned = <<"kibot.S3ToSqlTransformer">> /\ call.raised = <<>>
            ELSE call.returned = <<>> /\ call.raised = <<"ValueError">>

\* C8 witness: the factory was called with "kibot" and returned the
\* transformer, and with a near miss of it and raised.
C8_Witness ==
    \E i, j \in 1 .. Len(tf_calls) :
        /\ tf_calls[i].provider = "kibot"
        /\ tf_calls[i].returned # <<>>
        /\ tf_calls[j].provider = "Kibot"
        /\ tf_calls[j].raised = <<"ValueError">>

(***************************************************************************)
(* dev_scripts/notebooks/publish_notebook.py                               *)
(***************************************************************************)

\* The choices of --action.
ActionChoices ==
    {"convert", "open", "publish_locally", "publish_on_s3", "publish_on_webserver"}

\* The command lines and environments of a run:
\*  action: the value of --action, "absent" when the option is not given,
\*    "bogus" for a value that is not among the choices;
\*  file: what --file names;
\*  branch: whether --branch is given;
\*  local_dir: where the local publishing dir comes from ("none": neither
\*    --publish_notebook_dir nor the env var, "not_a_dir": it does not exist);
\*  s3_path: where the S3 path comes from ("invalid": not s3://.../notebooks);
\*  aws_profile: where the AWS profile comes from.
CommandLines ==
    [action : ActionChoices \cup {"absent", "bogus"},
     file : {"github_url", "http_url", "http_url_missing", "ipynb", "other"},
     branch : BOOLEAN,
     local_dir : {"arg", "env", "none", "not_a_dir"},
     s3_path : {"arg", "env", "none", "invalid"},
     aws_profile : {"arg", "env", "none"}]

\* _parse: the --action argument has default=["convert"], a list; a given
\* value is a string, checked against the choices.
ParseAction(given) ==
    IF given = "absent"
    THEN [kind |-> "list", val |-> "convert"]
    ELSE [kind |-> "str", val |-> given]

\* Python's args.action == "<s>": a list never equals a string.
ActionIs(s) == pn_action.kind = "str" /\ pn_action.val = s

NoAction == [kind |-> "none", val |-> ""]

PnIdle(cli) ==
    /\ pn_cli = cli
    /\ pn_pc = "parse"
    /\ pn_action = NoAction
    /\ pn_html = <<>>
    /\ pn_log = <<>>
    /\ pn_result = "running"

PnInit == \E cli \in CommandLines : PnIdle(cli)

\* The run ends with result r.
PnEnd(r) ==
    /\ pn_pc' = "end"
    /\ pn_result' = r

\* An external command or effect e: it succeeds and the run goes on at
\* position pc, or it fails and the run ends (si.system raises).
PnEffect(e, pc) ==
    \/ /\ pn_log' = Append(pn_log, e)
       /\ pn_pc' = pc
       /\ UNCHANGED pn_result
    \/ /\ PnEnd("command_failed")
       /\ UNCHANGED pn_log

\* _main: parser.parse_args() and the test of the "open" action.
PnParseArgs ==
    /\ pn_pc = "parse"
    /\ IF pn_cli.action = "bogus"
       THEN PnEnd("usage_error") /\ UNCHANGED pn_action
       ELSE /\ pn_action' = ParseAction(pn_cli.action)
            /\ pn_pc' = IF pn_cli.action = "open" THEN "open" ELSE "src_file"
            /\ UNCHANGED pn_result
    /\ UNCHANGED <<pn_cli, pn_html, pn_log>>
    /\ UNCHANGED <<cacheVars, tfVars, moreVars>>

\* _main, action "open": _get_aws_profile and `aws s3 ls`.
PnOpenLs ==
    /\ pn_pc = "open"
    /\ IF pn_cli.aws_profile = "none"
       THEN PnEnd("AssertionError") /\ UNCHANGED pn_log
       ELSE PnEffect("aws_s3_ls", "open_cp")
    /\ UNCHANGED <<pn_cli, pn_action, pn_html>>
    /\ UNCHANGED <<cacheVars, tfVars, moreVars>>

\* _main, action "open": `aws s3 cp`.
PnOpenCp ==
    /\ pn_pc = "open_cp"
    /\ PnEffect("aws_s3_cp", "open_file")
    /\ UNCHANGED <<pn_cli, pn_action, pn_html>>
    /\ UNCHANGED <<cacheVars, tfVars, moreVars>>

\* _main, action "open": opn.open_file and sys.exit(0).
PnOpenFile ==
    /\ pn_pc = "open_file"
    /\ pn_log' = Append(pn_log, "open_file")
    /\ PnEnd("exit_0")
    /\ UNCHANGED <<pn_cli, pn_action, pn_html>>
    /\ UNCHANGED <<cacheVars, tfVars, moreVars>>

\* _main: the path of the src file, _get_file_from_git_branch or _get_path.
PnSrcFile ==
    /\ pn_pc = "src_file"
    /\ IF pn_cli.branch
       THEN PnEffect("git_show", "dispatch")
       ELSE IF pn_cli.file = "other"
       THEN PnEnd("ValueError") /\ UNCHANGED pn_log
       ELSE IF pn_cli.file = "http_url_missing"
       THEN PnEnd("AssertionError") /\ UNCHANGED pn_log
       ELSE /\ pn_pc' = "dispatch"
            /\ UNCHANGED <<pn_log, pn_result>>
    /\ UNCHANGED <<pn_cli, pn_action, pn_html>>
    /\ UNCHANGED <<cacheVars, tfVars, moreVars>>

\* _main: `if args.action == "convert"`.
PnConvert ==
    /\ pn_pc = "dispatch"
    /\ ActionIs("convert")
    /\ pn_pc' = "nbconvert"
    /\ UNCHANGED <<pn_cli, pn_action, pn_html, pn_log, pn_result>>
    /\ UNCHANGED <<cacheVars, tfVars, moreVars>>

\* _main: `elif args.action == "publish_locally"`, up to the export.
PnPublishLocally ==
    /\ pn_pc = "dispatch"
    /\ ~ActionIs("convert")
    /\ ActionIs("publish_locally")
    /\ IF pn_cli.local_dir \in {"none", "not_a_dir"}
       THEN PnEnd("AssertionError") /\ UNCHANGED pn_log
       ELSE /\ pn_log' = Append(pn_log, "create_dir")
            /\ pn_pc' = "nbconvert"
            /\ UNCHANGED pn_result
    /\ UNCHANGED <<pn_cli, pn_action, pn_html>>
    /\ UNCHANGED <<cacheVars, tfVars, moreVars>>

\* _main: `elif args.action == "publish_on_s3"`, up to the export.
PnPublishOnS3 ==
    /\ pn_pc = "dispatch"
    /\ ~ActionIs("convert")
    /\ ~ActionIs("publish_locally")
    /\ ActionIs("publish_on_s3")
    /\ pn_pc' = "nbconvert"
    /\ UNCHANGED <<pn_cli, pn_action, pn_html, pn_log, pn_result>>
    /\ UNCHANGED <<cacheVars, tfVars, moreVars>>

\* _main: `elif args.action == "publish_on_webserver"`: the branch reads
\* html_file_name, which no statement before it binds.
PnPublishOnWebserver ==
    /\ pn_pc = "dispatch"
    /\ ~ActionIs("convert")
    /\ ~ActionIs("publish_locally")
    /\ ~ActionIs("publish_on_s3")
    /\ ActionIs("publish_on_webserver")
    /\ IF pn_html = <<>>
       THEN PnEnd("UnboundLocalError") /\ UNCHANGED pn_log
       ELSE \/ /\ pn_log' = Append(pn_log, "http_post")
               /\ PnEnd("returned")
            \/ /\ PnEnd("command_failed")
               /\ UNCHANGED pn_log
    /\ UNCHANGED <<pn_cli, pn_action, pn_html>>
    /\ UNCHANGED <<cacheVars, tfVars, moreVars>>

\* _main: `else: dbg.dfatal("Invalid action=...")`.
PnInvalidAction ==
    /\ pn_pc = "dispatch"
    /\ ~ActionIs("convert")
    /\ ~ActionIs("publish_locally")
    /\ ~ActionIs("publish_on_s3")
    /\ ~ActionIs("publish_on_webserver")
    /\ PnEnd("invalid_action")
    /\ UNCHANGED <<pn_cli, pn_action, pn_html, pn_log>>
    /\ UNCHANGED <<cacheVars, tfVars, moreVars>>

\* _export_notebook_to_html: `jupyter nbconvert ... --to html`.
PnNbconvert ==
    /\ pn_pc = "nbconvert"
    /\ PnEffect("nbconvert", "mv")
    /\ UNCHANGED <<pn_cli, pn_action, pn_html>>
    /\ UNCHANGED <<cacheVars, tfVars, moreVars>>

\* _export_notebook_to_dir: the `mv` of the HTML file to dst_dir, and what
\* the branch of _main does with the returned path.
PnMove ==
    /\ pn_pc = "mv"
    /\ \/ /\ pn_log' = Append(pn_log, "mv")
          /\ IF ActionIs("publish_locally")
             THEN PnEnd("returned") /\ UNCHANGED pn_html
             ELSE /\ pn_html' = <<"html">>
                  /\ pn_pc' = IF ActionIs("convert") THEN "open_html" ELSE "post_s3"
                  /\ UNCHANGED pn_result
       \/ /\ PnEnd("command_failed")
          /\ UNCHANGED <<pn_log, pn_html>>
    /\ UNCHANGED <<pn_cli, pn_action>>
    /\ UNCHANGED <<cacheVars, tfVars, moreVars>>

\* _main, action "convert": opn.open_file(html_file_name).
PnOpenHtml ==
    /\ pn_pc = "open_html"
    /\ pn_log' = Append(pn_log, "open_file")
    /\ PnEnd("returned")
    /\ UNCHANGED <<pn_cli, pn_action, pn_html>>
    /\ UNCHANGED <<cacheVars, tfVars, moreVars>>

\* _main, action "publish_on_s3": _get_s3_path, _get_aws_profile, _post_to_s3.
PnPostToS3 ==
    /\ pn_pc = "post_s3"
    /\ IF \/ pn_cli.s3_path \in {"none", "invalid"}
          \/ pn_cli.aws_profile = "none"
       THEN PnEnd("AssertionError") /\ UNCHANGED pn_log
       ELSE \/ /\ pn_log' = Append(pn_log, "s3_put")
               /\ PnEnd("returned")
            \/ /\ PnEnd("command_failed")
               /\ UNCHANGED pn_log
    /\ UNCHANGED <<pn_cli, pn_action, pn_html>>
    /\ UNCHANGED <<cacheVars, tfVars, moreVars>>

PnNext ==
    \/ PnParseArgs
    \/ PnOpenLs
    \/ PnOpenCp
    \/ PnOpenFile
    \/ PnSrcFile
    \/ PnConvert
    \/ PnPublishLocally
    \/ PnPublishOnS3
    \/ PnPublishOnWebserver
    \/ PnInvalidAction
    \/ PnNbconvert
    \/ PnMove
    \/ PnOpenHtml
    \/ PnPostToS3

(***************************************************************************)
(* Properties of publish_notebook.py, under PublishSpec.                   *)
(***************************************************************************)

\* The run has ended and nothing around the script failed: no external
\* command failed, the file and the configuration were usable.
PnEndedWithoutOutsideFailure ==
    /\ pn_pc = "end"
    /\ pn_result \notin {"command_failed", "ValueError", "AssertionError",
                         "usage_error"}

\* Effect e is in the log, and effect f is at a later place of it.
PnThen(e, f) ==
    \E i, j \in 1 .. Len(pn_log) : i < j /\ pn_log[i] = e /\ pn_log[j] = f

\* C9: a run without --action behaves as the "convert" action: it does not
\* end in the "Invalid action" fatal error, and when nothing around the
\* script fails it converts the notebook to HTML and then opens it.
C9_DefaultActionConverts ==
    pn_cli.action = "absent"
    => /\ pn_result # "invalid_action"
       /\ PnEndedWithoutOutsideFailure
            => /\ pn_result = "returned"
               /\ PnThen("nbconvert", "open_file")

\* C10: a run with --action publish_on_webserver, when nothing around the
\* script fails, exports the notebook to HTML and then posts the HTML file
\* to the webserver.
C10_PublishOnWebserverExportsThenPosts ==
    (pn_cli.action = "publish_on_webserver" /\ PnEndedWithoutOutsideFailure)
    => /\ pn_result = "returned"
       /\ PnThen("nbconvert", "http_post")

(***************************************************************************)
(* vendors2/kibot/data/transform/convert_csv_to_pq.py                      *)
(*                                                                         *)
(* A file name is the sequence of its parts, <<"A", ".csv.gz">> for        *)
(* "A.csv.gz"; a symbol is a file name without extension, <<"A">>.  A      *)
(* directory is the sequence of its path components.  The jobs that        *)
(* _process_over_dataset runs (one per symbol, in parallel unless          *)
(* --serial) are taken one at a time, in any order.                        *)
(***************************************************************************)

\* config.DATASETS: the datasets the docstring of the script names.
DATASETS == <<"all_stocks_1min", "all_stocks_daily">>

Datasets == {DATASETS[i] : i \in 1 .. Len(DATASETS)}

\* The names Kibot gives to the symbols whose files are on S3.
SymbolNames == {"A", "B"}

\* "%s.csv.gz" % symbol
CsvGzFile(symbol) == symbol \o <<".csv.gz">>

\* "%s.pq" % symbol
PqFile(symbol) == symbol \o <<".pq">>

\* aws_csv_dir = os.path.join("s3://", config.S3_PREFIX)
AwsCsvDir == <<"s3://", "kibot">>

\* aws_pq_dir = os.path.join("s3://", config.S3_PREFIX, "pq")
AwsPqDir == AwsCsvDir \o <<"pq">>

\* os.path.join(aws_csv_dir, dataset), os.path.join(aws_pq_dir, dataset)
DatasetDir(dir, dataset) == dir \o <<dataset>>

S3Dirs ==
    {DatasetDir(AwsCsvDir, d) : d \in Datasets}
        \cup {DatasetDir(AwsPqDir, d) : d \in Datasets}

\* Directory dir is directory prefix or lies below it.
IsBelow(prefix, dir) ==
    /\ Len(prefix) <= Len(dir)
    /\ SubSeq(dir, 1, Len(prefix)) = prefix

\* hs3.listdir(dir): the paths of the files of the S3 directory dir.
ListDir(s3, dir) == {[dir |-> dir, name |-> n] : n \in s3[dir]}

\* "aws s3 rm --recursive dir"
S3RemoveRecursive(s3, dir) ==
    [d \in DOMAIN s3 |-> IF IsBelow(dir, d) THEN {} ELSE s3[d]]

\* "aws s3 cp local_file dir/name"
S3Upload(s3, dir, name) == [s3 EXCEPT ![dir] = @ \cup {name}]

\* os.path.basename(file_path)
Basename(file_path) == file_path.name

\* filename.replace(ext, ""): every occurrence of ext is taken out.
Replace(filename, ext) == SelectSeq(filename, LAMBDA part : part # ext)

ExtractFilenameWithoutExtension(file_path) ==
    Replace(Replace(Basename(file_path), ".csv.gz"), ".pq")

\* A slip: the .pq listing is not consulted.
GetSymbolsToProcessNoSkip(no_skip_if_exists, csv_gz_dir, pq_dir, s3) ==
    {ExtractFilenameWithoutExtension(p) : p \in ListDir(s3, csv_gz_dir)}

\* _get_symbols_to_process on the S3 directories dataset_aws_csv_gz_dir and
\* dataset_aws_pq_dir; the list it returns is taken as a set.
GetSymbolsToProcess(no_skip_if_exists, csv_gz_dir, pq_dir, s3) ==
    LET csv_gz_s3_symbols ==
            {ExtractFilenameWithoutExtension(p) : p \in ListDir(s3, csv_gz_dir)}
        pq_s3_symbols ==
            {ExtractFilenameWithoutExtension(p) : p \in ListDir(s3, pq_dir)}
    IN  IF no_skip_if_exists
        THEN csv_gz_s3_symbols
        ELSE csv_gz_s3_symbols \ pq_s3_symbols

\* The command lines of the script; dataset is <<>> when --dataset is not
\* given, and optimize tells whether the interpreter runs with -O (no asserts).
CvCommandLines ==
    [delete_s3_dir : BOOLEAN, no_skip_if_exists : BOOLEAN,
     dataset : {<<>>, <<DATASETS[2]>>}, optimize : BOOLEAN]

\* The S3 directories hold <symbol>.csv.gz files, and <symbol>.pq files
\* below pq/.
CvS3States ==
    LET csv == {CsvGzFile(<<n>>) : n \in SymbolNames}
        pq == {PqFile(<<n>>) : n \in SymbolNames}
    IN  {[dir \in S3Dirs |->
            IF IsBelow(AwsPqDir, dir) THEN q[dir[Len(dir)]] ELSE c[dir[Len(dir)]]] :
         c \in [Datasets -> SUBSET csv], q \in [Datasets -> SUBSET pq]}

CvIdle(cli, s3) ==
    /\ cv_cli = cli
    /\ cv_s3 = s3
    /\ cv_pc = "start"
    /\ cv_todo = <<>>
    /\ cv_symbols = {}
    /\ cv_pending = {}
    /\ cv_log = <<>>
    /\ cv_result = "running"

CvInit == \E cli \in CvCommandLines, s3 \in CvS3States : CvIdle(cli, s3)

CvEvent(e, dataset, symbol) == [e |-> e, d |-> dataset, s |-> symbol]

CvEnd(r) ==
    /\ cv_pc' = "end"
    /\ cv_result' = r

\* parse_args, init_logger and the three create_dir.
CvCreateDirs ==
    /\ cv_pc = "start"
    /\ cv_pc' = "delete_s3_dir"
    /\ UNCHANGED <<cv_cli, cv_s3, cv_todo, cv_symbols, cv_pending, cv_log, cv_result>>
    /\ UNCHANGED notCvVars

\* datasets_to_proceed = args.dataset or config.DATASETS
CvDatasetsToProceed ==
    /\ cv_pc' = "datasets"
    /\ cv_todo' = IF cv_cli.dataset # <<>> THEN cv_cli.dataset ELSE DATASETS

\* if args.delete_s3_dir: not taken.
CvKeepS3Dir ==
    /\ cv_pc = "delete_s3_dir"
    /\ ~cv_cli.delete_s3_dir
    /\ CvDatasetsToProceed
    /\ UNCHANGED <<cv_cli, cv_s3, cv_symbols, cv_pending, cv_log, cv_result>>
    /\ UNCHANGED notCvVars

\* assert 0, "Very dangerous: are you sure?"
CvAssert ==
    /\ cv_pc = "delete_s3_dir"
    /\ cv_cli.delete_s3_dir
    /\ ~cv_cli.optimize
    /\ CvEnd("AssertionError")
    /\ UNCHANGED <<cv_cli, cv_s3, cv_todo, cv_symbols, cv_pending, cv_log>>
    /\ UNCHANGED notCvVars

\* The statements after the assert, which run only under -O.
CvDeleteS3Dir(ok) ==
    /\ cv_pc = "delete_s3_dir"
    /\ cv_cli.delete_s3_dir
    /\ cv_cli.optimize
    /\ cv_log' = Append(cv_log, CvEvent("s3_rm", "", <<>>))
    /\ IF ok
       THEN /\ cv_s3' = S3RemoveRecursive(cv_s3, AwsPqDir)
            /\ CvDatasetsToProceed
            /\ UNCHANGED cv_result
       ELSE /\ CvEnd("command_failed")
            /\ UNCHANGED <<cv_s3, cv_todo>>
    /\ UNCHANGED <<cv_cli, cv_symbols, cv_pending>>
    /\ UNCHANGED notCvVars

\* The head of the loop over the datasets, up to _get_symbols_to_process.
CvGetSymbols ==
    /\ cv_pc = "datasets"
    /\ cv_todo # <<>>
    /\ LET dataset == Head(cv_todo)
           s3_symbols ==
               GetSymbolsToProcess(cv_cli.no_skip_if_exists,
                                   DatasetDir(AwsCsvDir, dataset),
                                   DatasetDir(AwsPqDir, dataset), cv_s3)
       IN  /\ cv_symbols' = s3_symbols
           /\ cv_pending' = s3_symbols
    /\ cv_pc' = "convert"
    /\ UNCHANGED <<cv_cli, cv_s3, cv_todo, cv_log, cv_result>>
    /\ UNCHANGED notCvVars

\* _convert_kibot_csv_gz_to_pq for one symbol of the dataset.
CvConvert(symbol, ok) ==
    /\ cv_pc = "convert"
    /\ symbol \in cv_pending
    /\ LET dataset == Head(cv_todo)
       IN  IF ok
           THEN /\ cv_log' = cv_log \o <<CvEvent("convert", dataset, symbol),
                                         CvEvent("upload", dataset, symbol)>>
                /\ cv_s3' = S3Upload(cv_s3, DatasetDir(AwsPqDir, dataset),
                                     PqFile(symbol))
                /\ cv_pending' = cv_pending \ {symbol}
                /\ UNCHANGED <<cv_pc, cv_result>>
           ELSE /\ cv_log' = Append(cv_log, CvEvent("convert", dataset, symbol))
                /\ CvEnd("command_failed")
                /\ UNCHANGED <<cv_s3, cv_pending>>
    /\ UNCHANGED <<cv_cli, cv_todo, cv_symbols>>
    /\ UNCHANGED notCvVars

\* The first _process_over_dataset is over; the second one starts.
CvConverted ==
    /\ cv_pc = "convert"
    /\ cv_pending = {}
    /\ cv_pc' = "compare"
    /\ cv_pending' = cv_symbols
    /\ UNCHANGED <<cv_cli, cv_s3, cv_todo, cv_symbols, cv_log, cv_result>>
    /\ UNCHANGED notCvVars

\* _compare_kibot_csv_gz_to_pq for one symbol of the dataset.
CvCompare(symbol, outcome) ==
    /\ cv_pc = "compare"
    /\ symbol \in cv_pending
    /\ cv_log' = Append(cv_log, CvEvent("compare", Head(cv_todo), symbol))
    /\ IF outcome = "equal"
       THEN /\ cv_pending' = cv_pending \ {symbol}
            /\ UNCHANGED <<cv_pc, cv_result>>
       ELSE /\ CvEnd(outcome)
            /\ UNCHANGED cv_pending
    /\ UNCHANGED <<cv_cli, cv_s3, cv_todo, cv_symbols>>
    /\ UNCHANGED notCvVars

\* The second _process_over_dataset is over: the next dataset.
CvCompared ==
    /\ cv_pc = "compare"
    /\ cv_pending = {}
    /\ cv_pc' = "datasets"
    /\ cv_todo' = Tail(cv_todo)
    /\ UNCHANGED <<cv_cli, cv_s3, cv_symbols, cv_pending, cv_log, cv_result>>
    /\ UNCHANGED notCvVars

\* The loop over the datasets is over.
CvReturn ==
    /\ cv_pc = "datasets"
    /\ cv_todo = <<>>
    /\ CvEnd("returned")
    /\ UNCHANGED <<cv_cli, cv_s3, cv_todo, cv_symbols, cv_pending, cv_log>>
    /\ UNCHANGED notCvVars

\* The symbols of the files on S3.
CvSymbols == {<<n>> : n \in SymbolNames}

\* _compare_kibot_csv_gz_to_pq returns, raises ValueError("The dataframes
\* are different") or one of its aws commands fails.
CvCompareOutcomes == {"equal", "ValueError", "command_failed"}

CvNext ==
    \/ CvCreateDirs
    \/ CvKeepS3Dir
    \/ CvAssert
    \/ \E ok \in BOOLEAN : CvDeleteS3Dir(ok)
    \/ CvGetSymbols
    \/ \E symbol \in CvSymbols, ok \in BOOLEAN : CvConvert(symbol, ok)
    \/ CvConverted
    \/ \E symbol \in CvSymbols, outcome \in CvCompareOutcomes :
          CvCompare(symbol, outcome)
    \/ CvCompared
    \/ CvReturn

(***************************************************************************)
(* Properties of convert_csv_to_pq.py, under ConvertSpec.                  *)
(***************************************************************************)

\* The run has ended and nothing around the script failed: no aws command
\* failed and no converted file differed from its source.
CvEndedWithoutOutsideFailure ==
    /\ cv_pc = "end"
    /\ cv_result \notin {"command_failed", "ValueError"}

\* C11: in a run with --delete_s3_dir every conversion and every upload
\* comes after the deletion of the S3 Parquet directory, and when nothing
\* around the script fails the run deletes the directory first and then
\* processes the datasets to the end.
C11_DeleteS3DirThenProcess ==
    cv_cli.delete_s3_dir
    => /\ \A i \in 1 .. Len(cv_log) :
            cv_log[i].e \in {"convert", "upload"}
            => \E j \in 1 .. (i - 1) : cv_log[j].e = "s3_rm"
       /\ CvEndedWithoutOutsideFailure
            => /\ cv_result = "returned"
               /\ cv_log # <<>>
               /\ cv_log[1].e = "s3_rm"

\* The symbols with a .csv.gz file in the dataset's S3 directory, and among
\* them those with a .pq file in the dataset's S3 Parquet directory.
CvHasCsvGz(dataset) ==
    {<<n>> : n \in {m \in SymbolNames :
                        CsvGzFile(<<m>>) \in cv_s3[DatasetDir(AwsCsvDir, dataset)]}}

CvHasPq(dataset) ==
    {<<n>> : n \in {m \in SymbolNames :
                        PqFile(<<m>>) \in cv_s3[DatasetDir(AwsPqDir, dataset)]}}

\* _get_symbols_to_process has just returned: no job has run yet.
CvSymbolsListed ==
    /\ cv_pc = "convert"
    /\ cv_pending = cv_symbols

AllExchangeIds == <<"binance", "kucoin">>

\* The values of --exchange_ids.
DhExchangeIdArgs ==
    {<<"all">>, <<"binance">>, <<"kucoin">>, <<"kucoin", "binance">>}

\* The values of --currency_pairs.
DhCurrencyPairArgs ==
    {<<"all">>, <<"BTC/USDT">>, <<"ETH/USDT", "BTC/USDT">>,
     <<"BTC/USDT", "XRP/USDT", "ETH/USDT">>}

\* exchange.currency_pairs of the exchanges, in the order the exchange
\* lists them.
DhMarkets ==
    {[binance |-> <<"BTC/USDT", "ETH/USDT">>, kucoin |-> <<"ETH/USDT">>],
     [binance |-> <<"BTC/USDT", "ETH/USDT">>, kucoin |-> <<"BTC/USDT", "ETH/USDT">>]}

DhCommandLines ==
    [exchange_ids : DhExchangeIdArgs, currency_pairs : DhCurrencyPairArgs]

\* curr in exchange.currency_pairs
DhIn(curr, pairs) == \E i \in 1 .. Len(pairs) : pairs[i] = curr

\* The exchanges to visit, in order.
ExchangeIds(exchange_ids) ==
    IF exchange_ids = <<"all">> THEN AllExchangeIds ELSE exchange_ids

\* A slip: the pairs come in the order of the exchange, not of the command line.
PresentPairsInExchangeOrder(currency_pairs, exchange_currency_pairs) ==
    IF currency_pairs = <<"all">>
    THEN exchange_currency_pairs
    ELSE SelectSeq(exchange_currency_pairs, LAMBDA curr : DhIn(curr, currency_pairs))

\* present_pairs of one exchange.
PresentPairs(currency_pairs, exchange_currency_pairs) ==
    IF currency_pairs = <<"all">>
    THEN exchange_currency_pairs
    ELSE SelectSeq(currency_pairs, LAMBDA curr : DhIn(curr, exchange_currency_pairs))

DhIdle(cli, market) ==
    /\ dh_cli = cli
    /\ dh_market = market
    /\ dh_pc = "start"
    /\ dh_exchanges = <<>>
    /\ dh_pairs = <<>>
    /\ dh_log = <<>>
    /\ dh_result = "running"

DhInit == \E cli \in DhCommandLines, market \in DhMarkets : DhIdle(cli, market)

DhEvent(e, exchange_id, pair, ok) ==
    [e |-> e, exchange |-> exchange_id, pair |-> pair, ok |-> ok]

DhEnd(r) ==
    /\ dh_pc' = "end"
    /\ dh_result' = r

\* parse_args, create_dir, the datetimes and the choice of the exchanges.
DhPickExchanges ==
    /\ dh_pc = "start"
    /\ dh_exchanges' = ExchangeIds(dh_cli.exchange_ids)
    /\ dh_pc' = "exchange"
    /\ UNCHANGED <<dh_cli, dh_market, dh_pairs, dh_log, dh_result>>
    /\ UNCHANGED notDhVars

\* The head of the loop over the exchanges: CcxtExchange(exchange_id), which
\* may raise, and present_pairs.
DhInitExchange(ok) ==
    /\ dh_pc = "exchange"
    /\ dh_exchanges # <<>>
    /\ IF ok
       THEN /\ dh_pairs' = PresentPairs(dh_cli.currency_pairs,
                                        dh_market[Head(dh_exchanges)])
            /\ dh_pc' = "pair"
            /\ UNCHANGED dh_result
       ELSE /\ DhEnd("exchange_failed")
            /\ UNCHANGED dh_pairs
    /\ UNCHANGED <<dh_cli, dh_market, dh_exchanges, dh_log>>
    /\ UNCHANGED notDhVars

\* exchange.download_ohlcv_data for the next pair; an exception ends the run.
DhDownload(ok) ==
    /\ dh_pc = "pair"
    /\ dh_pairs # <<>>
    /\ dh_log' = Append(dh_log, DhEvent("download", Head(dh_exchanges),
                                        Head(dh_pairs), ok))
    /\ IF ok
       THEN /\ dh_pc' = "save"
            /\ UNCHANGED dh_result
       ELSE DhEnd("download_failed")
    /\ UNCHANGED <<dh_cli, dh_market, dh_exchanges, dh_pairs>>
    /\ UNCHANGED notDhVars

\* time.sleep and pair_data.to_csv for the pair just downloaded.
DhSave(ok) ==
    /\ dh_pc = "save"
    /\ dh_log' = Append(dh_log, DhEvent("save", Head(dh_exchanges),
                                        Head(dh_pairs), ok))
    /\ IF ok
       THEN /\ dh_pairs' = Tail(dh_pairs)
            /\ dh_pc' = "pair"
            /\ UNCHANGED dh_result
       ELSE /\ DhEnd("save_failed")
            /\ UNCHANGED dh_pairs
    /\ UNCHANGED <<dh_cli, dh_market, dh_exchanges>>
    /\ UNCHANGED notDhVars

\* The loop over the pairs of the exchange is over.
DhNextExchange ==
    /\ dh_pc = "pair"
    /\ dh_pairs = <<>>
    /\ dh_exchanges' = Tail(dh_exchanges)
    /\ dh_pc' = "exchange"
    /\ UNCHANGED <<dh_cli, dh_market, dh_pairs, dh_log, dh_result>>
    /\ UNCHANGED notDhVars

\* The loop over the exchanges is over.
DhReturn ==
    /\ dh_pc = "exchange"
    /\ dh_exchanges = <<>>
    /\ DhEnd("returned")
    /\ UNCHANGED <<dh_cli, dh_market, dh_exchanges, dh_pairs, dh_log>>
    /\ UNCHANGED notDhVars

DhNext ==
    \/ DhPickExchanges
    \/ \E ok \in BOOLEAN : DhInitExchange(ok)
    \/ \E ok \in BOOLEAN : DhDownload(ok)
    \/ \E ok \in BOOLEAN : DhSave(ok)
    \/ DhNextExchange
    \/ DhReturn

(***************************************************************************)
(* Properties of download_historical.py, under DownloadSpec.               *)
(***************************************************************************)

\* The place of word w in the list of words ws; 0 when it is not there.
DhPlace(w, ws) ==
    IF DhIn(w, ws) THEN CHOOSE i \in 1 .. Len(ws) : ws[i] = w ELSE 0

\* The place of an exchange in the order of the run, and of a pair in the
\* order of the pairs asked for (of the exchange's own list under "all").
DhExchangePlace(exchange_id) ==
    DhPlace(exchange_id,
            IF dh_cli.exchange_ids = <<"all">> THEN AllExchangeIds
            ELSE dh_cli.exchange_ids)

DhPairPlace(exchange_id, pair) ==
    DhPlace(pair,
            IF dh_cli.currency_pairs = <<"all">> THEN dh_market[exchange_id]
            ELSE dh_cli.currency_pairs)

\* Download a comes before download b in exchange order, then pair order.
DhBefore(a, b) ==
    \/ DhExchangePlace(a.exchange) < DhExchangePlace(b.exchange)
    \/ /\ a.exchange = b.exchange
       /\ DhPairPlace(a.exchange, a.pair) < DhPairPlace(b.exchange, b.pair)

IdMaxEnd == 4
IdMaxFreq == 2

IdConfigs ==
    {c \in [start : 0 .. IdMaxEnd, end : 0 .. IdMaxEnd, freq : 1 .. IdMaxFreq,
            fit_state : {0, 1}] : c.start <= c.end}

\* pd.date_range(start, end, freq=freq)
IdDateRange(start, end, freq) ==
    [k \in 1 .. ((end - start) \div freq + 1) |-> start + (k - 1) * freq]

\* The data the source node of the DAG has for bar t.
IdData(t) == (t * t + 1) % 3

\* The value of the prediction column at bar t: it depends on the fit state
\* and on the data of the bars up to t.
RECURSIVE IdHat(_, _)
IdHat(fit_state, t) ==
    IF t < 0 THEN fit_state ELSE (IdHat(fit_state, t - 1) + IdData(t)) % 4

\* The bars of the result of a prediction up to dt.
IdRows(cfg, dt) ==
    LET first == cfg.start % cfg.freq
    IN  [k \in 1 .. ((dt - first) \div cfg.freq + 1) |-> first + (k - 1) * cfg.freq]

\* A slip: the values of the column depend on the end of the prediction.
IdPredictAtDatetimePeeking(cfg, dt) ==
    [end_dt |-> dt,
     col |-> [k \in DOMAIN IdRows(cfg, dt) |-> IdHat(cfg.fit_state, dt)]]

\* predict_at_datetime(dt): the result bundle of the prediction up to dt.
IdPredictAtDatetime(cfg, dt) ==
    [end_dt |-> dt,
     col |-> [k \in DOMAIN IdRows(cfg, dt) |->
                IdHat(cfg.fit_state, IdRows(cfg, dt)[k])]]

IdIdle(cfg) ==
    /\ id_cfg = cfg
    /\ id_step = 1
    /\ id_bundles = <<>>
    /\ id_pc = "predict"

IdInit == \E cfg \in IdConfigs : IdIdle(cfg)

\* One step of the generator predict(): the next result bundle.
IdPredict ==
    /\ id_pc = "predict"
    /\ LET grid == IdDateRange(id_cfg.start, id_cfg.end, id_cfg.freq)
       IN  /\ id_step <= Len(grid)
           /\ id_bundles' = Append(id_bundles,
                                   IdPredictAtDatetime(id_cfg, grid[id_step]))
    /\ id_step' = id_step + 1
    /\ UNCHANGED <<id_cfg, id_pc>>
    /\ UNCHANGED notIdVars

\* The generator is exhausted: list(dag_runner.predict()) is complete.
IdExhausted ==
    /\ id_pc = "predict"
    /\ id_step > Len(IdDateRange(id_cfg.start, id_cfg.end, id_cfg.freq))
    /\ id_pc' = "done"
    /\ UNCHANGED <<id_cfg, id_step, id_bundles>>
    /\ UNCHANGED notIdVars

IdNext ==
    \/ IdPredict
    \/ IdExhausted

(***************************************************************************)
(* Properties of IncrementalDagRunner, under IncrementalSpec.              *)
(***************************************************************************)

\* The steps of the grid: the times from start to end, both included, that
\* are a whole number of periods after start.
IdGridSteps ==
    {t \in id_cfg.start .. id_cfg.end : (t - id_cfg.start) % id_cfg.freq = 0}

\* srs[:-1]
IdAllButLast(srs) == SubSeq(srs, 1, Len(srs) - 1)

RtMaxSleep == 2
RtMaxTimeOut == 4

\* The replayed times at which a loop may start.
RtStartTimes == {0, 5}

RtConfigs ==
    [start : RtStartTimes, sleep_interval_in_secs : 1 .. RtMaxSleep,
     time_out_in_secs : 1 .. RtMaxTimeOut]

\* A slip: the simulated clock does not follow the sleep of the loop.
RtSleepFrozen(clock, sleep_interval_in_secs) == clock

\* asyncio.sleep(sleep_interval_in_secs) in the solipsistic event loop.
RtSleep(clock, sleep_interval_in_secs) == clock + sleep_interval_in_secs

\* Event(num_it, current_time, ...)
RtEventOf(num_it, current_time) == [num_it |-> num_it, current_time |-> current_time]

\* The result bundle of the DAG run for the time of the event.
RtResultBundle(current_time) == [current_time |-> current_time]

RtIdle(cfg) ==
    /\ rt_cfg = cfg
    /\ rt_clock = cfg.start
    /\ rt_num_it = 1
    /\ rt_events = <<>>
    /\ rt_bundles = <<>>
    /\ rt_pc = "event"

RtInit == \E cfg \in RtConfigs : RtIdle(cfg)

\* The head of an iteration: the event with the current replayed time.
RtRecordEvent ==
    /\ rt_pc = "event"
    /\ rt_events' = Append(rt_events, RtEventOf(rt_num_it, rt_clock))
    /\ rt_pc' = "workload"
    /\ UNCHANGED <<rt_cfg, rt_clock, rt_num_it, rt_bundles>>
    /\ UNCHANGED notRtVars

\* The workload of the iteration (the DAG run for the time of the event)
\* and the sleep of the loop.
RtWorkload ==
    /\ rt_pc = "workload"
    /\ rt_bundles' = Append(rt_bundles,
                            RtResultBundle(rt_events[Len(rt_events)].current_time))
    /\ rt_clock' = RtSleep(rt_clock, rt_cfg.sleep_interval_in_secs)
    /\ rt_pc' = "check"
    /\ UNCHANGED <<rt_cfg, rt_num_it, rt_events>>
    /\ UNCHANGED notRtVars

\* The loop goes on: num_it += 1.
RtNextIteration ==
    /\ rt_pc = "check"
    /\ rt_num_it < rt_cfg.time_out_in_secs
    /\ rt_num_it' = rt_num_it + 1
    /\ rt_pc' = "event"
    /\ UNCHANGED <<rt_cfg, rt_clock, rt_events, rt_bundles>>
    /\ UNCHANGED notRtVars

\* The loop times out: predict() returns the result bundles.
RtTimeOut ==
    /\ rt_pc = "check"
    /\ rt_num_it >= rt_cfg.time_out_in_secs
    /\ rt_pc' = "done"
    /\ UNCHANGED <<rt_cfg, rt_clock, rt_num_it, rt_events, rt_bundles>>
    /\ UNCHANGED notRtVars

RtNext ==
    \/ RtRecordEvent
    \/ RtWorkload
    \/ RtNextIteration
    \/ RtTimeOut

(***************************************************************************)
(* Properties of RealTimeDagRunner, under RealTimeSpec.                    *)
(***************************************************************************)

LlMaxRows == 2

\* The values of the nan_mode parameter of __init__.
LlNanModes == {"None", "raise", "drop", "leave_unchanged", "ignore"}

LlRow == {<<>>, <<0>>, <<1>>}

\* The input columns: df_in[col], with at least one row.
LlColumns == UNION {[1 .. n -> LlRow] : n \in 1 .. LlMaxRows}

\* A series: its index and its values.
LlSeries(column) == [index |-> [i \in DOMAIN column |-> i], values |-> column]

\* srs.dropna()
LlDropna(srs) ==
    LET keep == SelectSeq(srs.index, LAMBDA i : srs.values[i] # <<>>)
    IN  [index |-> keep, values |-> srs.values]

\* The tau that the local-level statistics of srs give: the rows of the
\* index that hold a number are what it is computed from.
LlTauOf(srs) ==
    LET rows == SelectSeq(srs.index, LAMBDA i : srs.values[i] # <<>>)
    IN  1 + Len(SelectSeq(rows, LAMBDA i : srs.values[i] = <<1>>))

\* _handle_nans(idx, non_nan_idx): the exception it raises, "" when none.
HandleNans(nan_mode, idx, non_nan_idx) ==
    IF nan_mode = "raise"
    THEN IF Len(idx) # Len(non_nan_idx)
         THEN "ValueError: NaNs detected"
         ELSE ""
    ELSE IF nan_mode \in {"drop", "leave_unchanged"}
         THEN ""
         ELSE "ValueError: Unrecognized nan_mode"

\* _fit_predict_helper(df_in, fit) on a node with the given _nan_mode, _tau
\* and info; computed tells whether the statistics and the moving average
\* of the column can be computed.  The result: the exception raised ("" when
\* none) and the node's _tau and info afterwards.
FitPredictHelper(nan_mode, tau, info, column, fit, computed) ==
    LET all == LlSeries(column)
        srs == IF nan_mode = "drop" THEN LlDropna(all) ELSE all
        nans == HandleNans(nan_mode, all.index, srs.index)
        tau_from_input == LlTauOf(srs)
        tau_for_ema == IF fit THEN <<tau_from_input>> ELSE tau
        method == IF fit THEN "fit" ELSE "predict"
    IN  IF nans # ""
        THEN [raised |-> nans, tau |-> tau, info |-> info]
        ELSE IF ~computed
             THEN [raised |-> "AssertionError", tau |-> tau, info |-> info]
             ELSE [raised |-> "",
                   tau |-> tau_for_ema,
                   info |-> [info EXCEPT ![method] =
                                <<[tau_from_input |-> tau_from_input,
                                   tau_for_ema |-> tau_for_ema]>>]]

LlNoInfo == [fit |-> <<>>, predict |-> <<>>]

\* __init__(nid, col, col_mode, nan_mode)
LlConstructed(nan_mode) ==
    /\ ll_nan_mode = IF nan_mode = "None" THEN "raise" ELSE nan_mode
    /\ ll_tau = <<>>
    /\ ll_info = LlNoInfo
    /\ ll_last = [method |-> "init", column |-> <<>>, raised |-> "",
                  tau_before |-> <<>>, info_before |-> LlNoInfo]

LlInit == \E nan_mode \in LlNanModes : LlConstructed(nan_mode)

\* One call of fit (fit = TRUE) or of predict.
LlFitPredict(column, fit, computed) ==
    LET r == FitPredictHelper(ll_nan_mode, ll_tau, ll_info, column, fit, computed)
    IN  /\ ll_tau' = r.tau
        /\ ll_info' = r.info
        /\ ll_last' = [method |-> IF fit THEN "fit" ELSE "predict",
                       column |-> column, raised |-> r.raised,
                       tau_before |-> ll_tau, info_before |-> ll_info]
        /\ UNCHANGED ll_nan_mode

Fit(column, computed) ==
    /\ LlFitPredict(column, TRUE, computed)
    /\ UNCHANGED notLlVars

Predict(column, computed) ==
    /\ LlFitPredict(column, FALSE, computed)
    /\ UNCHANGED notLlVars

LlNext ==
    \/ \E column \in LlColumns, computed \in BOOLEAN : Fit(column, computed)
    \/ \E column \in LlColumns, computed \in BOOLEAN : Predict(column, computed)

(***************************************************************************)
(* Properties of LocalLevelModel, under LocalLevelSpec.                    *)
(***************************************************************************)

\* The column has at least one NaN.
LlHasNan(column) == \E i \in DOMAIN column : column[i] = <<>>

\* C16: on a node whose nan_mode is "raise" (given, or by default for None),
\* a fit or a predict whose input column has at least one NaN raises
\* ValueError "NaNs detected" and leaves the node's tau and info as they were.
C16_RaiseModeRejectsNans ==
    (/\ ll_last.method \in {"fit", "predict"}
     /\ ll_nan_mode = "raise"
     /\ LlHasNan(ll_last.column))
    => /\ ll_last.raised = "ValueError: NaNs detected"
       /\ ll_tau = ll_last.tau_before
       /\ ll_info = ll_last.info_before

(***************************************************************************)
(* vendors2/kibot/metadata/extract/download_adjustments.py                 *)
(*                                                                         *)
(* The text of an HTTP response is the sequence of its words.  The         *)
(* environment of a run says what the login request answers and whether    *)
(* the later steps (the download request, the file write, the S3 path      *)
(* check, the aws command) succeed.                                        *)
(***************************************************************************)

\* The texts the API may answer to the login request.
DaLoginTexts ==
    {<<"200", "OK">>, <<"407", "already">>, <<"401", "denied">>,
     <<"500">>, <<"error", "200">>, <<>>}

DaEnvironments ==
    [login_text : DaLoginTexts, download_ok : BOOLEAN, write_ok : BOOLEAN,
     s3_path_valid : BOOLEAN, upload_ok : BOOLEAN]

\* int(word): <<n>>, or <<>> when the word is not a number (ValueError).
DaInt(word) ==
    CASE word = "200" -> <<200>>
      [] word = "407" -> <<407>>
      [] word = "401" -> <<401>>
      [] word = "500" -> <<500>>
      [] OTHER -> <<>>

\* int(response.text.split()[0]): <<>> when it raises.
DaStatusCode(text) ==
    IF text = <<>> THEN <<>> ELSE DaInt(text[1])

\* A slip: every numeric status is accepted.
DaLoginAcceptedAlways(status_code) == TRUE

\* status_code in accepted_status_codes
DaLoginAccepted(status_code) == status_code \in {200, 407}

DaIdle(env) ==
    /\ da_env = env
    /\ da_pc = "start"
    /\ da_log = <<>>
    /\ da_result = "running"
    /\ da_return = <<>>

DaInit == \E env \in DaEnvironments : DaIdle(env)

DaEnd(r) ==
    /\ da_pc' = "end"
    /\ da_result' = r

\* A step does effect e: the run goes on to pc next when ok, and else it
\* ends with exception failure.
DaEffect(e, ok, next, failure) ==
    /\ da_log' = Append(da_log, e)
    /\ IF ok
       THEN /\ da_pc' = next
            /\ UNCHANGED da_result
       ELSE DaEnd(failure)
    /\ UNCHANGED <<da_env, da_return>>

\* parse_args, init_logger, create_dir.
DaCreateDirs ==
    /\ da_pc = "start"
    /\ da_pc' = "login"
    /\ UNCHANGED <<da_env, da_log, da_result, da_return>>
    /\ UNCHANGED notDaVars

\* requests.get(action="login")
DaLogin ==
    /\ da_pc = "login"
    /\ DaEffect("login", TRUE, "status", "")
    /\ UNCHANGED notDaVars

\* status_code = int(...) and dbg.dassert_in(status_code, accepted_status_codes)
DaCheckStatus ==
    /\ da_pc = "status"
    /\ LET status_code == DaStatusCode(da_env.login_text)
       IN  IF status_code = <<>>
           THEN DaEnd("ValueError")
           ELSE IF DaLoginAccepted(status_code[1])
                THEN /\ da_pc' = "download"
                     /\ UNCHANGED da_result
                ELSE DaEnd("AssertionError")
    /\ UNCHANGED <<da_env, da_log, da_return>>
    /\ UNCHANGED notDaVars

\* requests.get(action="adjustments")
DaDownload ==
    /\ da_pc = "download"
    /\ DaEffect("download", da_env.download_ok, "write", "ConnectionError")
    /\ UNCHANGED notDaVars

\* io_.to_file(file_path, ...)
DaToFile ==
    /\ da_pc = "write"
    /\ DaEffect("write", da_env.write_ok, "check_s3", "OSError")
    /\ UNCHANGED notDaVars

\* hs3.check_valid_s3_path(aws_path)
DaCheckValidS3Path ==
    /\ da_pc = "check_s3"
    /\ DaEffect("check_s3", da_env.s3_path_valid, "upload", "AssertionError")
    /\ UNCHANGED notDaVars

\* si.system("aws s3 cp file_path aws_path")
DaUpload ==
    /\ da_pc = "upload"
    /\ DaEffect("upload", da_env.upload_ok, "return", "command_failed")
    /\ UNCHANGED notDaVars

\* return 0
DaReturn ==
    /\ da_pc = "return"
    /\ DaEnd("returned")
    /\ da_return' = <<0>>
    /\ UNCHANGED <<da_env, da_log>>
    /\ UNCHANGED notDaVars

DaNext ==
    \/ DaCreateDirs
    \/ DaLogin
    \/ DaCheckStatus
    \/ DaDownload
    \/ DaToFile
    \/ DaCheckValidS3Path
    \/ DaUpload
    \/ DaReturn

(***************************************************************************)
(* Properties of download_adjustments.py, under AdjustmentsSpec.           *)
(***************************************************************************)

\* The login response starts with the status code 200 or 407.
DaLoggedIn ==
    /\ da_env.login_text # <<>>
    /\ da_env.login_text[1] \in {"200", "407"}

\* C19: the download, the file write and the upload happen only after a
\* login answered with status 200 or 407; a run whose login is answered
\* otherwise ends without return code and without any of them; and a run
\* that succeeds did login, download, local write, S3 path check and upload,
\* in this order, and returns 0.
C19_LoginGatesDownloadAndUpload ==
    /\ \A i \in 1 .. Len(da_log) :
          da_log[i] \in {"download", "write", "check_s3", "upload"}
          => /\ da_log[1] = "login"
             /\ i > 1
             /\ DaLoggedIn
    /\ (da_pc = "end" /\ ~DaLoggedIn)
       => /\ da_result \in {"AssertionError", "ValueError"}
          /\ da_log = <<"login">>
          /\ da_return = <<>>
    /\ da_result = "returned"
       => /\ da_log = <<"login", "download", "write", "check_s3", "upload">>
          /\ da_return = <<0>>
    /\ da_return # <<>> => da_result = "returned"

\* A run that succeeded after a login answered "407".
C19_Witness ==
    /\ da_result = "returned"
    /\ da_env.login_text[1] = "407"
    /\ Len(da_log) = 5

(***************************************************************************)
(* The specifications: one per piece, the other pieces at rest.            *)
(***************************************************************************)

PnRest ==
    PnIdle([action |-> "absent", file |-> "ipynb", branch |-> FALSE,
            local_dir |-> "none", s3_path |-> "none", aws_profile |-> "none"])

\* A script at rest has no command line and no environment yet.
CvRest == CvIdle(<<>>, <<>>)

DhRest == DhIdle(<<>>, <<>>)

IdRest == IdIdle(<<>>)

RtRest == RtIdle([start |-> 0])

LlRest == LlConstructed("None")

DaRest == DaIdle(<<>>)

\* The pieces modelled after the first three, at rest.
MoreRest == CvRest /\ DhRest /\ IdRest /\ RtRest /\ LlRest /\ DaRest

\* helpers/cache.py
Init == CacheInit /\ TfInit /\ PnRest /\ MoreRest

Next == CacheNext

Spec == Init /\ [][Next]_vars

\* transformer_factory.py
CacheRest ==
    /\ CacheInit
    /\ use_mem_cache
    /\ use_disk_cache

FactoryInit == TfInit /\ CacheRest /\ PnRest /\ MoreRest

FactoryNext == TfNext

FactorySpec == FactoryInit /\ [][FactoryNext]_vars

\* The first three pieces at rest.
BaseRest == CacheRest /\ TfInit /\ PnRest

\* publish_notebook.py
PublishInit == PnInit /\ CacheRest /\ TfInit /\ MoreRest

PublishNext == PnNext

PublishSpec == PublishInit /\ [][PublishNext]_vars

\* convert_csv_to_pq.py
ConvertInit == CvInit /\ BaseRest /\ DhRest /\ IdRest /\ RtRest /\ LlRest /\ DaRest

ConvertNext == CvNext

ConvertSpec == ConvertInit /\ [][ConvertNext]_vars

\* download_historical.py
DownloadInit == DhInit /\ BaseRest /\ CvRest /\ IdRest /\ RtRest /\ LlRest /\ DaRest

DownloadNext == DhNext

DownloadSpec == DownloadInit /\ [][DownloadNext]_vars

\* IncrementalDagRunner
IncrementalInit == IdInit /\ BaseRest /\ CvRest /\ DhRest /\ RtRest /\ LlRest /\ DaRest

IncrementalNext == IdNext

IncrementalSpec == IncrementalInit /\ [][IncrementalNext]_vars

\* RealTimeDagRunner
RealTimeInit == RtInit /\ BaseRest /\ CvRest /\ DhRest /\ IdRest /\ LlRest /\ DaRest

RealTimeNext == RtNext

RealTimeSpec == RealTimeInit /\ [][RealTimeNext]_vars

\* LocalLevelModel
LocalLevelInit == LlInit /\ BaseRest /\ CvRest /\ DhRest /\ IdRest /\ RtRest /\ DaRest

LocalLevelNext == LlNext

LocalLevelSpec == LocalLevelInit /\ [][LocalLevelNext]_vars

\* download_adjustments.py
AdjustmentsInit ==
    DaInit /\ BaseRest /\ CvRest /\ DhRest /\ IdRest /\ RtRest /\ LlRest

AdjustmentsNext == DaNext

AdjustmentsSpec == AdjustmentsInit /\ [][AdjustmentsNext]_vars

====
